---- MODULE Spec2Model ----
(***************************************************************************)
(* A model of Polygon/IO.py (jraedler/Polygon3): the style ring buffer,    *)
(* the binary codec, the stream resolvers and the gnuplot / SVG / XML      *)
(* writers and the XML reader.                                             *)
(*                                                                         *)
(* Three specifications share the module:                                  *)
(*   SpecRing  __RingBuffer: construction, then repeated calls             *)
(*   SpecBin   encodeBinary, a byte-prefix cut, decodeBinary               *)
(*   Spec      one call of a writer / reader on a resolved stream, and     *)
(*             readXML on what writeXML wrote                              *)
(* Each specification leaves the variables of the other two idle.          *)
(***************************************************************************)
EXTENDS Integers, Sequences, FiniteSets, TLC

VARIABLES
    rb_seq,   \* the sequence handed to __RingBuffer.__init__ (caller's object)
    rb_s,     \* __RingBuffer.s
    rb_i,     \* __RingBuffer.i (0-based, as in the source)
    rb_l,     \* __RingBuffer.l
    rb_n,     \* number of __call__ invocations so far
    rb_o,     \* value returned by the latest __call__
    poly,     \* the Polygon given to encodeBinary
    bin,      \* the byte string (a sequence of 0..255)
    cut,      \* TRUE once bin is a strict prefix of encodeBinary(poly)
    dec,      \* outcome of decodeBinary(bin)
    bpc,      \* position in the encode / cut / decode pipeline
    op,       \* the writer or reader called
    args,     \* its arguments
    pc,       \* "call": not yet run; "returned" / "raised": how it ended
    f,        \* the stream the resolver gave the call
    cl,       \* the resolver's needs-closing flag
    ret,      \* the value returned
    err,      \* the exception that left the call
    lay,      \* the layout writeSVG computed
    src       \* where readXML's document came from

ringvars == <<rb_seq, rb_s, rb_i, rb_l, rb_n, rb_o>>
binvars  == <<poly, bin, cut, dec, bpc>>
iovars   == <<op, args, pc, f, cl, ret, err, lay, src>>
vars     == <<ringvars, binvars, iovars>>

None == "None"

Min(a, b) == IF a < b THEN a ELSE b
Abs(a) == IF a < 0 THEN -a ELSE a

\* all sequences over S of length lo..hi
SeqsOf(S, lo, hi) == UNION {[1..k -> S] : k \in lo..hi}

RECURSIVE Pow2(_)
Pow2(k) == IF k = 0 THEN 1 ELSE 2 * Pow2(k - 1)

\* Python slices b[:s] and b[s:]
Take(b, s) == SubSeq(b, 1, Min(s, Len(b)))
Drop(b, s) == SubSeq(b, Min(s, Len(b)) + 1, Len(b))

(***************************************************************************)
(* __RingBuffer                                                            *)
(***************************************************************************)
RingMaxLen == 3
MaxCalls == 7
StyleValues == {"A", "B", "C"}

RingIdle ==
    /\ rb_seq = <<>> /\ rb_s = <<>> /\ rb_i = 0 /\ rb_l = 0
    /\ rb_n = 0 /\ rb_o = None

\* __init__: s = seq, i = 0, l = len(seq)
RingBufferInit(seq) ==
    /\ rb_seq = seq
    /\ rb_s = seq
    /\ rb_i = 0
    /\ rb_l = Len(seq)
    /\ rb_n = 0
    /\ rb_o = None

RingNextEarlyWrap(i, l) == IF i + 1 >= l - 1 THEN 0 ELSE i + 1

\* self.i += 1; if self.i == self.l: self.i = 0
RingNext(i, l) == IF i + 1 = l THEN 0 ELSE i + 1

\* __call__: o = self.s[self.i]; advance; return o
RingBufferCall ==
    /\ rb_n < MaxCalls
    /\ rb_l > 0
    /\ rb_o' = rb_s[rb_i + 1]
    /\ rb_i' = RingNext(rb_i, rb_l)
    /\ rb_n' = rb_n + 1
    /\ UNCHANGED <<rb_seq, rb_s, rb_l>>

(***************************************************************************)
(* Polygon (the geometry engine's container, as IO.py uses it)             *)
(***************************************************************************)
\* a Polygon is the sequence of its contours; a contour is its point tuple
\* and its hole flag; a point is <<x, y>>
EmptyPolygon == <<>>
addContour(p, c, isHole) == Append(p, [c |-> c, hole |-> (isHole # 0)])
isHole(p, k) == IF p[k].hole THEN 1 ELSE 0

(***************************************************************************)
(* struct: pack / unpack in network byte order                             *)
(* A double is modelled by the integer number of quarters it holds         *)
(* (6 is 1.5, -8 is -2.0); packD computes its IEEE-754 bytes.              *)
(***************************************************************************)
PackU32(n) ==
    << (n \div 16777216) % 256, (n \div 65536) % 256, (n \div 256) % 256, n % 256 >>

\* '!I'
packI(n) == PackU32(n)

\* '!l': two's complement on 4 bytes
packl(x) ==
    IF x >= 0 THEN PackU32(x)
    ELSE [k \in 1..4 |-> 255 - PackU32(-x - 1)[k]]

RECURSIVE Log2(_)
Log2(n) == IF n <= 1 THEN 0 ELSE 1 + Log2(n \div 2)

\* '!d' of v quarters: sign, 11-bit exponent, 52-bit fraction (low 32 bits 0)
packd(v) ==
    IF v = 0 THEN <<0, 0, 0, 0, 0, 0, 0, 0>>
    ELSE LET n == Abs(v)
             h == Log2(n)
             e == 1021 + h
             m == (n - Pow2(h)) * Pow2(20 - h)
             sg == IF v < 0 THEN 128 ELSE 0
         IN << sg + (e \div 16), (e % 16) * 16 + (m \div 65536),
               (m \div 256) % 256, m % 256, 0, 0, 0, 0 >>

unpackI(b) == b[1] * 16777216 + b[2] * 65536 + b[3] * 256 + b[4]

unpackl(b) ==
    IF b[1] < 128 THEN unpackI(b)
    ELSE -(unpackI([k \in 1..4 |-> 255 - b[k]]) + 1)

\* the double held by 8 bytes; a bit pattern outside the modelled range is
\* kept as the bytes themselves
unpackd(b) ==
    LET sg == b[1] \div 128
        e == (b[1] % 128) * 16 + (b[2] \div 16)
        m == (b[2] % 16) * 65536 + b[3] * 256 + b[4]
        h == e - 1021
        low0 == \A k \in 5..8 : b[k] = 0
    IN IF e = 0 /\ m = 0 /\ low0 THEN 0
       ELSE IF low0 /\ h \in 0..20 /\ (1048576 + m) % Pow2(20 - h) = 0
            THEN (IF sg = 1 THEN -1 ELSE 1) * ((1048576 + m) \div Pow2(20 - h))
            ELSE <<"double", b>>

\* a struct format: one '!I', one '!l', or '!<n>d'
FmtI == [c |-> "I", n |-> 1]
Fmtl == [c |-> "l", n |-> 1]
Fmtd(n) == [c |-> "d", n |-> n]

calcsize(fmt) == IF fmt.c = "d" THEN 8 * fmt.n ELSE 4

StructError == [err |-> "struct.error"]

\* the values of a buffer of exactly calcsize(fmt) bytes
UnpackValues(fmt, b) ==
    IF fmt.c = "I" THEN [vals |-> <<unpackI(b)>>]
    ELSE IF fmt.c = "l" THEN [vals |-> <<unpackl(b)>>]
    ELSE [vals |-> [k \in 1..fmt.n |-> unpackd(SubSeq(b, 8 * k - 7, 8 * k))]]

unpackZeroFilled(fmt, b) ==
    UnpackValues(fmt, [k \in 1..calcsize(fmt) |-> IF k <= Len(b) THEN b[k] ELSE 0])

\* struct.unpack: the buffer must hold exactly calcsize(fmt) bytes
unpack(fmt, b) ==
    IF Len(b) # calcsize(fmt) THEN StructError
    ELSE UnpackValues(fmt, b)

\* __unpack(f, b): s = calcsize(f); return unpack(f, b[:s]), b[s:]
Unpack(fmt, b) ==
    LET s == calcsize(fmt)
        u == unpack(fmt, Take(b, s))
    IN IF "err" \in DOMAIN u THEN u ELSE [vals |-> u.vals, rest |-> Drop(b, s)]

\* __flatten(c): x0, y0, x1, y1, ...
flatten(c) == [k \in 1..(2 * Len(c)) |-> c[(k + 1) \div 2][2 - (k % 2)]]

couplesSwapped(s) == [k \in 1..(Len(s) \div 2) |-> <<s[2 * k], s[2 * k - 1]>>]

\* __couples(s): (s[0], s[1]), (s[2], s[3]), ...
couples(s) == [k \in 1..(Len(s) \div 2) |-> <<s[2 * k - 1], s[2 * k]>>]

RECURSIVE Concat(_)
Concat(ss) == IF ss = <<>> THEN <<>> ELSE Head(ss) \o Concat(Tail(ss))

\* one contour's record: pack('!l', +-len(c)) + pack('!<2n>d', *flatten(c))
EncodeContour(p, k) ==
    LET c == p[k].c
    IN packl(Len(c) * (IF isHole(p, k) = 1 THEN -1 ELSE 1))
       \o Concat([j \in 1..(2 * Len(c)) |-> packd(flatten(c)[j])])

\* encodeBinary(p)
encodeBinary(p) ==
    packI(Len(p)) \o Concat([k \in 1..Len(p) |-> EncodeContour(p, k)])

\* the loop of decodeBinary: n contours still to read from b, p built so far
RECURSIVE DecodeContours(_, _, _)
DecodeContours(n, b, p) ==
    IF n = 0 THEN [p |-> p]
    ELSE LET x == Unpack(Fmtl, b)
         IN IF "err" \in DOMAIN x THEN x
            ELSE LET hole == IF x.vals[1] < 0 THEN 1 ELSE 0
                     s == IF x.vals[1] < 0 THEN -2 * x.vals[1] ELSE 2 * x.vals[1]
                     flat == Unpack(Fmtd(s), x.rest)
                 IN IF "err" \in DOMAIN flat THEN flat
                    ELSE DecodeContours(n - 1, flat.rest,
                                        addContour(p, couples(flat.vals), hole))

\* decodeBinary(bin)
decodeBinary(b) ==
    LET nC == Unpack(FmtI, b)
    IN IF "err" \in DOMAIN nC THEN nC
       ELSE DecodeContours(nC.vals[1], nC.rest, EmptyPolygon)

(***************************************************************************)
(* Inputs of the codec                                                     *)
(***************************************************************************)
MaxContours == 2
MaxPoints == 2

\* the j-th point of a test contour, in quarters: distinct points, x # y
PointAt(j) == <<6 * j, 1 - 8 * j>>

BinContours ==
    {[c |-> [j \in 1..n |-> PointAt(j)], hole |-> h] : n \in 1..MaxPoints, h \in BOOLEAN}

BinPolygons == SeqsOf(BinContours, 0, MaxContours)

BinIdle ==
    /\ poly = EmptyPolygon /\ bin = <<>> /\ cut = FALSE /\ dec = None /\ bpc = "idle"

BinInit ==
    /\ poly \in BinPolygons
    /\ bin = <<>> /\ cut = FALSE /\ dec = None /\ bpc = "start"

Encode ==
    /\ bpc = "start"
    /\ bin' = encodeBinary(poly)
    /\ bpc' = "encoded"
    /\ UNCHANGED <<poly, cut, dec>>

\* the caller drops the tail of the byte string
Truncate ==
    /\ bpc = "encoded"
    /\ \E n \in 0..(Len(bin) - 1) : bin' = Take(bin, n)
    /\ cut' = TRUE
    /\ bpc' = "truncated"
    /\ UNCHANGED <<poly, dec>>

Decode ==
    /\ bpc \in {"encoded", "truncated"}
    /\ dec' = decodeBinary(bin)
    /\ bpc' = "decoded"
    /\ UNCHANGED <<poly, bin, cut>>

(***************************************************************************)
(* Text conversions                                                        *)
(* In the gnuplot and XML sections a coordinate is modelled by the integer *)
(* number of millionths it holds (1234567 is 1.234567).  A '%g' numeral is *)
(* [neg, m, e]: the decimal number m * 10^e millionths, m without trailing *)
(* zeros.  A '%d' numeral is its sequence of decimal digits.               *)
(***************************************************************************)
RECURSIVE Pow10(_)
Pow10(k) == IF k = 0 THEN 1 ELSE 10 * Pow10(k - 1)

RECURSIVE NumDigits(_)
NumDigits(n) == IF n < 10 THEN 1 ELSE 1 + NumDigits(n \div 10)

\* n / q rounded to the nearest integer, ties to even
RoundHalfEven(n, q) ==
    LET d == n \div q
        r == n % q
    IN IF 2 * r > q \/ (2 * r = q /\ d % 2 = 1) THEN d + 1 ELSE d

RECURSIVE StripZeros(_, _)
StripZeros(m, e) ==
    IF m # 0 /\ m % 10 = 0 THEN StripZeros(m \div 10, e + 1) ELSE [m |-> m, e |-> e]

\* '%g' % v: six significant digits, trailing zeros dropped
formatG(v) ==
    IF v = 0 THEN [k |-> "g", neg |-> FALSE, m |-> 0, e |-> 0]
    ELSE LET n == Abs(v)
             d == NumDigits(n)
             k == IF d > 6 THEN d - 6 ELSE 0
             z == StripZeros(RoundHalfEven(n, Pow10(k)), k)
         IN [k |-> "g", neg |-> v < 0, m |-> z.m, e |-> z.e]

\* '%d' % n for n >= 0: the digits of n
RECURSIVE Digits(_)
Digits(n) == IF n < 10 THEN <<n>> ELSE Append(Digits(n \div 10), n % 10)

formatD(n) == [k |-> "d", ds |-> Digits(n)]

RECURSIVE DigitsValue(_)
DigitsValue(ds) ==
    IF Len(ds) = 1 THEN ds[1] ELSE 10 * DigitsValue(SubSeq(ds, 1, Len(ds) - 1)) + ds[Len(ds)]

\* the text of a missing attribute: ''
NoText == [k |-> "empty"]

\* int(text): a digit string only
IsInt(t) == t.k = "d"
int(t) == DigitsValue(t.ds)

\* float(text): a '%g' numeral or a digit string, in millionths
IsFloat(t) == t.k \in {"g", "d"}
float(t) ==
    IF t.k = "d" THEN 1000000 * DigitsValue(t.ds)
    ELSE (IF t.neg THEN -1 ELSE 1) * t.m * Pow10(t.e)

(***************************************************************************)
(* Streams and their resolution                                            *)
(* A stream is [kind, closed, data]; data is the sequence of text pieces   *)
(* it holds.  An argument that is a path string is "path", a caller's      *)
(* file-like object "stream", any other object "other".                    *)
(***************************************************************************)
Raise(type, line) == [type |-> type, line |-> line]

NewStream(kind, data) == [kind |-> kind, closed |-> FALSE, data |-> data]
write(s, pieces) == [s EXCEPT !.data = @ \o pieces]
close(s) == [s EXCEPT !.closed = TRUE]

\* getWritableObject(ofile): the stream and the needs-closing flag
getWritableObject(ofile) ==
    IF ofile = None THEN [f |-> NewStream("StringIO", <<>>), cl |-> FALSE]
    ELSE IF ofile = "path" THEN [f |-> NewStream("file", <<>>), cl |-> TRUE]
    ELSE IF ofile = "stream" THEN [f |-> NewStream("caller", <<>>), cl |-> FALSE]
    ELSE [err |-> Raise("Exception", 90)]

\* getReadableObject(ifile): ifile is [kind, doc]; a string that names no
\* file ("text") is read as the document itself
getReadableObject(ifile) ==
    IF ifile.kind = "path" THEN [f |-> NewStream("file", ifile.doc), cl |-> TRUE]
    ELSE IF ifile.kind = "text" THEN [f |-> NewStream("StringIO", ifile.doc), cl |-> TRUE]
    ELSE IF ifile.kind = "stream" THEN [f |-> NewStream("caller", ifile.doc), cl |-> FALSE]
    ELSE [err |-> Raise("Exception", 110)]

\* "if cl: f.close()"
closeIf(owned, s) == IF owned THEN close(s) ELSE s

(***************************************************************************)
(* writeGnuplot, writeGnuplotTriangles                                     *)
(***************************************************************************)
Line(x, y) == [t |-> "line", x |-> formatG(x), y |-> formatG(y)]
Blank == [t |-> "blank"]

\* one contour: its points, then its first point and a blank line
GnuplotContour(vl) ==
    [j \in 1..Len(vl) |-> Line(vl[j][1], vl[j][2])]
    \o << Line(vl[1][1], vl[1][2]), Blank >>

GnuplotText(polylist) ==
    Concat([k \in 1..Len(polylist) |->
        Concat([c \in 1..Len(polylist[k]) |-> GnuplotContour(polylist[k][c].c)])])

\* one triangle of a strip: j, j+1, j+2, j again, and a blank line
Triangle(vl, j) ==
    << Line(vl[j][1], vl[j][2]), Line(vl[j + 1][1], vl[j + 1][2]),
       Line(vl[j + 2][1], vl[j + 2][2]), Line(vl[j][1], vl[j][2]), Blank >>

\* one strip: range(len(vl)-2) triangles, then '\n'
StripText(vl) ==
    Concat([j \in 1..(IF Len(vl) > 2 THEN Len(vl) - 2 ELSE 0) |-> Triangle(vl, j)])
    \o << Blank >>

\* polylist here holds p.triStrip() of each polygon: a sequence of strips
TrianglesText(strips) ==
    Concat([k \in 1..Len(strips) |->
        Concat([c \in 1..Len(strips[k]) |-> StripText(strips[k][c])])])

(***************************************************************************)
(* XML text: a sequence of tokens                                          *)
(*   [t |-> "decl"]                  the <?xml ...?> header                *)
(*   [t |-> "open", tag, attrs]      <tag a="..">                          *)
(*   [t |-> "empty", tag, attrs]     <tag a=".."/>                         *)
(*   [t |-> "close", tag]            </tag>                                *)
(*   [t |-> "ws"]                    white space between tags              *)
(* The area and bounding-box attributes writeXML also prints are left out: *)
(* readXML never reads them.                                               *)
(***************************************************************************)
Ws == [t |-> "ws"]
Open(tag, attrs) == [t |-> "open", tag |-> tag, attrs |-> attrs]
Empty(tag, attrs) == [t |-> "empty", tag |-> tag, attrs |-> attrs]
Close(tag) == [t |-> "close", tag |-> tag]

\* '\n'.join(l)
RECURSIVE JoinLines(_)
JoinLines(l) ==
    IF Len(l) <= 1 THEN l ELSE <<Head(l), Ws>> \o JoinLines(Tail(l))

\* the lines of one contour of p
XmlContour(p, k) ==
    << Open("contour", [points |-> formatD(Len(p[k].c)), isHole |-> formatD(isHole(p, k))]) >>
    \o [j \in 1..Len(p[k].c) |->
           Empty("p", [x |-> formatG(p[k].c[j][1]), y |-> formatG(p[k].c[j][2])])]
    \o << Close("contour") >>

\* what writeXML writes for one polygon: '\n'.join(l), l ending in '</polygon>\n'
XmlPolygon(p) ==
    JoinLines(<< Open("polygon", [contours |-> formatD(Len(p))]) >>
              \o Concat([k \in 1..Len(p) |-> XmlContour(p, k)])
              \o << Close("polygon") >>) \o << Ws >>

XmlText(polylist, withHeader) ==
    (IF withHeader THEN << [t |-> "decl"], Ws >> ELSE <<>>)
    \o Concat([k \in 1..Len(polylist) |-> XmlPolygon(polylist[k])])

(***************************************************************************)
(* xml.dom.minidom.parseString, on tokens                                  *)
(* A DOM node is [nodeType |-> "TEXT"] or                                  *)
(* [nodeType |-> "ELEMENT", tagName, attrs, childNodes].                   *)
(***************************************************************************)
ExpatError == [err |-> Raise("ExpatError", 342)]
TextNode == [nodeType |-> "TEXT"]
NoNode == [nodeType |-> "NONE"]
Element(tag, attrs, kids) ==
    [nodeType |-> "ELEMENT", tagName |-> tag, attrs |-> attrs, childNodes |-> kids]

\* node n becomes the last child of the innermost open element
AddChild(stack, n) ==
    [stack EXCEPT ![Len(stack)].childNodes = Append(@, n)]

\* k: index of the next token; stack: the open elements, outermost first;
\* root: the finished document element, or NoNode
RECURSIVE ParseTokens(_, _, _, _)
ParseTokens(toks, k, stack, root) ==
    IF k > Len(toks)
    THEN IF stack # <<>> \/ root = NoNode THEN ExpatError ELSE [doc |-> root]
    ELSE LET tk == toks[k] IN
      CASE tk.t = "decl" ->
             IF k = 1 THEN ParseTokens(toks, k + 1, stack, root) ELSE ExpatError
        [] tk.t = "ws" ->
             IF stack = <<>> THEN ParseTokens(toks, k + 1, stack, root)
             ELSE ParseTokens(toks, k + 1, AddChild(stack, TextNode), root)
        [] tk.t = "open" ->
             IF stack = <<>> /\ root # NoNode THEN ExpatError
             ELSE ParseTokens(toks, k + 1,
                              Append(stack, Element(tk.tag, tk.attrs, <<>>)), root)
        [] tk.t = "empty" ->
             IF stack = <<>>
             THEN IF root # NoNode THEN ExpatError
                  ELSE ParseTokens(toks, k + 1, stack, Element(tk.tag, tk.attrs, <<>>))
             ELSE ParseTokens(toks, k + 1,
                              AddChild(stack, Element(tk.tag, tk.attrs, <<>>)), root)
        [] tk.t = "close" ->
             IF stack = <<>> \/ stack[Len(stack)].tagName # tk.tag THEN ExpatError
             ELSE LET done == stack[Len(stack)]
                      rest == SubSeq(stack, 1, Len(stack) - 1)
                  IN IF rest = <<>> THEN ParseTokens(toks, k + 1, rest, done)
                     ELSE ParseTokens(toks, k + 1, AddChild(rest, done), root)

\* parseString(text): the document element, or ExpatError
parseString(toks) == ParseTokens(toks, 1, <<>>, NoNode)

\* node.getAttribute(name): "" when the attribute is missing
getAttribute(n, name) == IF name \in DOMAIN n.attrs THEN n.attrs[name] ELSE NoText

\* the element nodes among a node's children, in order
ElementChildren(n) == SelectSeq(n.childNodes, LAMBDA c : c.nodeType = "ELEMENT")

\* getElementsByTagName: the matching elements below n, in document order
RECURSIVE ElementsBelow(_, _)
ElementsBelow(n, tag) ==
    Concat([k \in 1..Len(ElementChildren(n)) |->
        LET c == ElementChildren(n)[k]
        IN (IF c.tagName = tag THEN <<c>> ELSE <<>>) \o ElementsBelow(c, tag)])

getElementsByTagName(d, tag) ==
    (IF d.tagName = tag THEN <<d>> ELSE <<>>) \o ElementsBelow(d, tag)

(***************************************************************************)
(* Outcome of one call: the stream, its needs-closing flag, the returned   *)
(* value, the exception that left the call (NoErr: none) and, for          *)
(* writeSVG, the layout it computed.                                       *)
(***************************************************************************)
NoErr == [type |-> "none", line |-> 0]
NoStream == [kind |-> "none", closed |-> FALSE, data |-> <<>>]
NoLayout == [done |-> FALSE]
RetStream == [v |-> "f"]
RetNone == [v |-> "None"]
RetRaised == [v |-> "raised"]

Outcome(s, c, r, e, l) == [f |-> s, cl |-> c, ret |-> r, err |-> e, lay |-> l]

\* the call never got a stream
Unresolved(e) == Outcome(NoStream, FALSE, RetRaised, e, NoLayout)

\* writeGnuplot(ofile, polylist)
writeGnuplot(a) ==
    LET r == getWritableObject(a.ofile)
    IN IF "err" \in DOMAIN r THEN Unresolved(r.err)
       ELSE Outcome(closeIf(r.cl, write(r.f, GnuplotText(a.polylist))),
                    r.cl, RetStream, NoErr, NoLayout)

\* writeGnuplotTriangles(ofile, polylist): "if cl: f.close()", then
\* "f.close()" whatever cl is, and no return statement
writeGnuplotTriangles(a) ==
    LET r == getWritableObject(a.ofile)
    IN IF "err" \in DOMAIN r THEN Unresolved(r.err)
       ELSE Outcome(close(closeIf(r.cl, write(r.f, TrianglesText(a.polylist)))),
                    r.cl, RetNone, NoErr, NoLayout)

\* writeXML(ofile, polylist, withHeader)
writeXML(a) ==
    LET r == getWritableObject(a.ofile)
    IN IF "err" \in DOMAIN r THEN Unresolved(r.err)
       ELSE Outcome(closeIf(r.cl, write(r.f, XmlText(a.polylist, a.withHeader))),
                    r.cl, RetStream, NoErr, NoLayout)

(***************************************************************************)
(* readXML                                                                 *)
(***************************************************************************)
countMatchesAtLeast(declared, n) == declared >= n

\* "assert int(declared) == len(read)"
countMatches(declared, n) == declared = n

\* the <p> loop of one contour node sn, then line 357 and the arguments of
\* addContour on line 358
ReadContour(sn) ==
    LET kids == ElementChildren(sn)
        points == getAttribute(sn, "points")
        hole == getAttribute(sn, "isHole")
    IN IF \E j \in 1..Len(kids) :
              ~IsFloat(getAttribute(kids[j], "x")) \/ ~IsFloat(getAttribute(kids[j], "y"))
       THEN [err |-> Raise("ValueError", 356)]
       ELSE LET polist == [j \in 1..Len(kids) |->
                    <<float(getAttribute(kids[j], "x")), float(getAttribute(kids[j], "y"))>>]
            IN IF ~IsInt(points) THEN [err |-> Raise("ValueError", 357)]
               ELSE IF ~countMatches(int(points), Len(polist))
                    THEN [err |-> Raise("AssertionError", 357)]
               ELSE IF ~IsInt(hole) THEN [err |-> Raise("ValueError", 358)]
               ELSE [polist |-> polist, isHole |-> int(hole)]

\* the loop over the element children of one polygon node
RECURSIVE ReadContours(_, _, _)
ReadContours(kids, k, p) ==
    IF k > Len(kids) THEN [p |-> p]
    ELSE IF kids[k].tagName # "contour" THEN [err |-> Raise("AssertionError", 351)]
    ELSE LET c == ReadContour(kids[k])
         IN IF "err" \in DOMAIN c THEN c
            ELSE ReadContours(kids, k + 1, addContour(p, c.polist, c.isHole))

\* one polygon node pn, with the check of line 359
ReadPolygon(pn) ==
    LET r == ReadContours(ElementChildren(pn), 1, EmptyPolygon)
        contours == getAttribute(pn, "contours")
    IN IF "err" \in DOMAIN r THEN r
       ELSE IF ~IsInt(contours) THEN [err |-> Raise("ValueError", 359)]
       ELSE IF ~countMatches(int(contours), Len(r.p))
            THEN [err |-> Raise("AssertionError", 359)]
       ELSE r

\* the loop over d.getElementsByTagName('polygon')
RECURSIVE ReadPolygons(_, _, _)
ReadPolygons(pns, k, plist) ==
    IF k > Len(pns) THEN [plist |-> plist]
    ELSE LET r == ReadPolygon(pns[k])
         IN IF "err" \in DOMAIN r THEN r
            ELSE ReadPolygons(pns, k + 1, Append(plist, r.p))

\* readXML(ifile): the stream is closed on line 343, after parseString
readXML(a) ==
    LET r == getReadableObject(a.ifile)
    IN IF "err" \in DOMAIN r THEN Unresolved(r.err)
       ELSE LET d == parseString(r.f.data)
            IN IF "err" \in DOMAIN d
               THEN Outcome(r.f, r.cl, RetRaised, d.err, NoLayout)
               ELSE LET s == closeIf(r.cl, r.f)
                        ps == ReadPolygons(getElementsByTagName(d.doc, "polygon"), 1, <<>>)
                    IN IF "err" \in DOMAIN ps
                       THEN Outcome(s, r.cl, RetRaised, ps.err, NoLayout)
                       ELSE Outcome(s, r.cl, [v |-> "plist", plist |-> ps.plist],
                                    NoErr, NoLayout)

(***************************************************************************)
(* Exact rational arithmetic for the layout of writeSVG: <<n, d>>, d > 0,  *)
(* in lowest terms.  The coordinates of this section are whole numbers.    *)
(***************************************************************************)
RECURSIVE GCD(_, _)
GCD(a, b) == IF b = 0 THEN a ELSE GCD(b, a % b)

Rat(n, d) ==
    LET g == GCD(Abs(n), Abs(d))
        s == IF d < 0 THEN -1 ELSE 1
    IN <<s * (n \div g), s * (d \div g)>>

RInt(n) == <<n, 1>>
RMul(a, b) == Rat(a[1] * b[1], a[2] * b[2])
RDiv(a, b) == Rat(a[1] * b[2], a[2] * b[1])
RSub(a, b) == Rat(a[1] * b[2] - b[1] * a[2], a[2] * b[2])
RLess(a, b) == a[1] * b[2] < b[1] * a[2]
\* '%d' % x: the integer part
Trunc(a) == IF a[1] >= 0 THEN a[1] \div a[2] ELSE -((-a[1]) \div a[2])

(***************************************************************************)
(* The geometry engine, as writeSVG uses it                                *)
(***************************************************************************)
SetMin(S) == CHOOSE x \in S : \A y \in S : x <= y
SetMax(S) == CHOOSE x \in S : \A y \in S : x >= y

PointsOf(p) == UNION {{p[k].c[j] : j \in 1..Len(p[k].c)} : k \in 1..Len(p)}

\* p.boundingBox(): (xmin, xmax, ymin, ymax)
boundingBox(p) ==
    << SetMin({q[1] : q \in PointsOf(p)}), SetMax({q[1] : q \in PointsOf(p)}),
       SetMin({q[2] : q \in PointsOf(p)}), SetMax({q[2] : q \in PointsOf(p)}) >>

\* p.flop(0.0): mirror at the line y = 0
flop(p) ==
    [k \in 1..Len(p) |->
        [p[k] EXCEPT !.c = [j \in 1..Len(p[k].c) |-> <<p[k].c[j][1], -p[k].c[j][2]>>]]]

(***************************************************************************)
(* writeSVG                                                                *)
(***************************************************************************)
default_colors ==
    << <<27, 158, 119>>, <<217, 95, 2>>, <<117, 112, 179>>, <<231, 41, 138>>,
       <<102, 166, 30>>, <<230, 171, 2>>, <<166, 118, 29>>, <<102, 102, 102>> >>

\* the cursor of a ring buffer of length l after n calls
RECURSIVE RingCursor(_, _)
RingCursor(l, n) == IF n = 0 THEN 0 ELSE RingNext(RingCursor(l, n - 1), l)

\* what the n-th call (n >= 1) of __RingBuffer(seq) returns
RingValue(seq, n) == seq[RingCursor(Len(seq), n - 1) + 1]

\* Python truth of an optional number: None and 0 are both false, and the
\* code tells them apart nowhere, so an absent width or height is 0 here
Truthy(x) == x # 0

\* Python truth of an optional sequence: None and the empty sequence are
\* both false, so absent labels or label coordinates are <<>> here
NonEmpty(s) == s # <<>>

noExtentNever(xdim, ydim) == FALSE

\* "not (xdim or ydim)"
noExtent(xdim, ydim) == ~(xdim # 0 \/ ydim # 0)

\* lines 240-248: width and height from the arguments and a = ydim / xdim
\* (a given as a rational); [width, height] or the exception of line 248
Canvas(w0, h0, a) ==
    LET neither == ~Truthy(w0) /\ ~Truthy(h0)
        w1 == IF neither /\ RLess(a, RInt(1)) THEN 300 ELSE w0
        h1 == IF neither /\ ~RLess(a, RInt(1)) THEN 300 ELSE h0
        setH == Truthy(w1) /\ ~Truthy(h1)
        h2 == IF setH THEN RMul(RInt(w1), a) ELSE IF Truthy(h1) THEN RInt(h1) ELSE RInt(0)
        h2true == h2[1] # 0
    IN IF h2true /\ ~Truthy(w1)
       THEN IF a[1] = 0 THEN [err |-> Raise("ZeroDivisionError", 248)]
            ELSE [width |-> RDiv(h2, a), height |-> h2]
       ELSE [width |-> RInt(w1), height |-> h2]

warpBoxNoOffset(width, height, bb, minx, miny, xdim, ydim) ==
    << RDiv(RMul(width, RInt(bb[1])), RInt(xdim)),
       RDiv(RMul(width, RInt(bb[2])), RInt(xdim)),
       RDiv(RMul(height, RInt(bb[3])), RInt(ydim)),
       RDiv(RMul(height, RInt(bb[4])), RInt(ydim)) >>

\* the arguments of p.warpToBox on lines 275-276 (xdim # 0 and ydim # 0)
warpBox(width, height, bb, minx, miny, xdim, ydim) ==
    << RDiv(RMul(width, RInt(bb[1] - minx)), RInt(xdim)),
       RDiv(RMul(width, RInt(bb[2] - minx)), RInt(xdim)),
       RDiv(RMul(height, RInt(bb[3] - miny)), RInt(ydim)),
       RDiv(RMul(height, RInt(bb[4] - miny)), RInt(ydim)) >>

\* lines 252-263: the exception of the label checks, or NoErr
LabelCheck(labels, labels_coords, npoly) ==
    IF ~NonEmpty(labels) THEN NoErr
    ELSE IF Len(labels) # npoly THEN Raise("Error", 258)
    ELSE IF NonEmpty(labels_coords) /\ Len(labels_coords) # Len(labels)
         THEN Raise("Error", 260)
    ELSE NoErr

\* lines 277-296: the pieces of s for polygon i (1-based); the path is the
\* clone warped into its box
SvgPolygon(a, pp, box, i, width, height, minx, miny, xdim, ydim) ==
    LET path == [t |-> "path", fill |-> RingValue(default_colors, i),
                 opacity |-> RingValue(<<"1.0">>, i),
                 stroke |-> RingValue(<< <<0, 0, 0>> >>, i),
                 stroke_width |-> RingValue(<<"1.0">>, i), poly |-> pp[i], box |-> box]
        at == IF NonEmpty(a.labels_coords)
              THEN [by |-> "coords",
                    x |-> RDiv(RMul(width, RInt(a.labels_coords[i][1] - minx)), RInt(xdim)),
                    y |-> RDiv(RMul(height, RInt(a.labels_coords[i][2] - miny)), RInt(ydim))]
              ELSE [by |-> "center"]
    IN IF NonEmpty(a.labels)
       THEN << [t |-> "g"], path,
               [t |-> "text", at |-> at, centered |-> a.labels_centered, label |-> a.labels[i]],
               [t |-> "/g"] >>
       ELSE << path >>

\* writeSVG from line 227 on, on the resolved stream r: nothing is written
\* before line 298, and no exception is handled
SvgBody(a, r) ==
    LET pp == [i \in 1..Len(a.polylist) |-> flop(a.polylist[i])]
        bbs == [i \in 1..Len(pp) |-> boundingBox(pp[i])]
        npoly == Len(pp)
        Failed(e) == Outcome(r.f, r.cl, RetRaised, e, NoLayout)
    IN IF npoly = 0 THEN Failed(Raise("IndexError", 231))
       ELSE
       LET minx == SetMin({bbs[i][1] : i \in 1..npoly})
           maxx == SetMax({bbs[i][2] : i \in 1..npoly})
           miny == SetMin({bbs[i][3] : i \in 1..npoly})
           maxy == SetMax({bbs[i][4] : i \in 1..npoly})
           xdim == maxx - minx
           ydim == maxy - miny
       IN IF noExtent(xdim, ydim) THEN Failed(Raise("Error", 238))
          ELSE IF xdim = 0 THEN Failed(Raise("ZeroDivisionError", 239))
          ELSE
          LET cv == Canvas(a.width, a.height, Rat(ydim, xdim))
              le == LabelCheck(a.labels, a.labels_coords, npoly)
          IN IF "err" \in DOMAIN cv THEN Failed(cv.err)
             ELSE IF le # NoErr THEN Failed(le)
             ELSE IF ydim = 0 THEN Failed(Raise("ZeroDivisionError", 276))
             ELSE
             LET placed == [i \in 1..npoly |->
                     warpBox(cv.width, cv.height, bbs[i], minx, miny, xdim, ydim)]
                 s == << [t |-> "svg", width |-> Trunc(cv.width), height |-> Trunc(cv.height)] >>
                      \o Concat([i \in 1..npoly |->
                             SvgPolygon(a, pp, placed[i], i, cv.width, cv.height,
                                        minx, miny, xdim, ydim)])
                      \o << [t |-> "/svg"] >>
             IN Outcome(closeIf(r.cl, write(r.f, s)), r.cl, RetStream, NoErr,
                        [done |-> TRUE, bbs |-> bbs, minx |-> minx, miny |-> miny,
                         xdim |-> xdim, ydim |-> ydim,
                         width |-> cv.width, height |-> cv.height, placed |-> placed])

\* writeSVG(ofile, polylist, width, height, labels, labels_coords, labels_centered)
writeSVG(a) ==
    LET r == getWritableObject(a.ofile)
    IN IF "err" \in DOMAIN r THEN Unresolved(r.err) ELSE SvgBody(a, r)

(***************************************************************************)
(* Inputs of the writers and of readXML                                    *)
(***************************************************************************)
MaxPolys == 2
MaxSvgPolys == 2
MaxLabels == 2
MaxDeclared == 2
MaxItems == 2

\* what a caller may pass as ofile: nothing, a path string, a file-like
\* object; "other" is an object that is none of these
Ofiles == {None, "path", "stream"}

\* gnuplot / XML polygons, coordinates in millionths; 1234567 has seven
\* significant digits
Tri == [c |-> << <<0, 0>>, <<1000000, 0>>, <<0, 2500000>> >>, hole |-> FALSE]
Notch == [c |-> << <<250000, 250000>>, <<1234567, 250000>>, <<250000, -1500000>> >>,
          hole |-> TRUE]
XmlPolygons == { EmptyPolygon, <<Tri>>, <<Tri, Notch>> }
XmlPolylists == SeqsOf(XmlPolygons, 0, MaxPolys)

\* p.triStrip() of a polygon: a sequence of strips of points
StripSets ==
    { <<>>,
      << << <<0, 0>>, <<1000000, 0>>, <<0, 2500000>> >> >>,
      << << <<0, 0>>, <<1000000, 0>>, <<0, 2500000>>, <<1234567, 2500000>> >> >> }

\* writeSVG polygons, whole-number coordinates: two squares, a polygon
\* whose points are all equal, a horizontal and a vertical segment
Square(lo, hi) ==
    << [c |-> << <<lo, lo>>, <<hi, lo>>, <<hi, hi>>, <<lo, hi>> >>, hole |-> FALSE] >>
Dot == << [c |-> << <<1, 1>>, <<1, 1>>, <<1, 1>> >>, hole |-> FALSE] >>
HSeg == << [c |-> << <<0, 2>>, <<3, 2>> >>, hole |-> FALSE] >>
VSeg == << [c |-> << <<2, 0>>, <<2, 5>> >>, hole |-> FALSE] >>
SvgPolygons == { Square(0, 1), Square(2, 3), Dot, HSeg, VSeg }

Labels == SeqsOf({"L"}, 0, MaxLabels)
\* none, as many as the labels, one more than the labels
LabelCoords(labels) ==
    { <<>>, [k \in 1..Len(labels) |-> <<1, 1>>], [k \in 1..(Len(labels) + 1) |-> <<1, 1>>] }

\* XML documents of the writeXML schema, whose declared counts need not be
\* the real ones: a <polygon> of up to MaxItems children, each a <contour>
\* declaring d points and holding n, or an element that is no contour
DocPoint(j) == Empty("p", [x |-> formatG(j * 500000), y |-> formatG(-j * 1000000)])

ContourTokens(declared, hole, n) ==
    << Open("contour", [points |-> formatD(declared), isHole |-> formatD(hole)]), Ws >>
    \o Concat([j \in 1..n |-> <<DocPoint(j), Ws>>])
    \o << Close("contour") >>

DocItems ==
    {ContourTokens(d, 0, n) : d \in 0..MaxDeclared, n \in 0..MaxDeclared}
    \cup {ContourTokens(1, 1, 1), << Empty("other", <<>>) >>}

DocTokens(d, items) ==
    << Open("polygon", [contours |-> formatD(d)]), Ws >>
    \o Concat([k \in 1..Len(items) |-> items[k] \o <<Ws>>])
    \o << Close("polygon"), Ws >>

Docs == {DocTokens(d, items) : d \in 0..MaxDeclared, items \in SeqsOf(DocItems, 0, MaxItems)}

\* the documents read from a file: those of at most one child
FileDocs == {DocTokens(d, items) : d \in 0..MaxDeclared, items \in SeqsOf(DocItems, 0, 1)}

\* an argument that is neither a string nor file-like fails in the
\* resolver, whatever the other arguments are
Calls ==
    [op : {"writeGnuplot"}, ofile : Ofiles, polylist : XmlPolylists]
    \cup [op : {"writeGnuplotTriangles"}, ofile : Ofiles,
          polylist : SeqsOf(StripSets, 0, MaxPolys)]
    \cup [op : {"writeXML"}, ofile : Ofiles, polylist : XmlPolylists, withHeader : BOOLEAN]
    \cup UNION {[op : {"writeSVG"}, ofile : Ofiles,
                 polylist : SeqsOf(SvgPolygons, 0, MaxSvgPolys),
                 width : {0, 100}, height : {0, 50},
                 labels : {l}, labels_coords : LabelCoords(l),
                 labels_centered : BOOLEAN] : l \in Labels}
    \cup {[op |-> "readXML", ifile |-> [kind |-> k, doc |-> d]] :
             k \in {"text", "stream"}, d \in Docs}
    \cup {[op |-> "readXML", ifile |-> [kind |-> "path", doc |-> d]] : d \in FileDocs}
    \cup {[op |-> o, ofile |-> "other", polylist |-> <<>>] :
             o \in {"writeGnuplot", "writeGnuplotTriangles"}}
    \cup {[op |-> "writeXML", ofile |-> "other", polylist |-> <<>>, withHeader |-> FALSE],
          [op |-> "writeSVG", ofile |-> "other", polylist |-> <<>>, width |-> 0,
           height |-> 0, labels |-> <<>>, labels_coords |-> <<>>, labels_centered |-> FALSE],
          [op |-> "readXML", ifile |-> [kind |-> "other", doc |-> <<>>]]}

(***************************************************************************)
(* One call                                                                *)
(***************************************************************************)
FromCaller == [from |-> "caller"]

IOIdle ==
    /\ op = "none" /\ args = [op |-> "none"] /\ pc = "idle" /\ f = NoStream
    /\ cl = FALSE /\ ret = RetNone /\ err = NoErr /\ lay = NoLayout /\ src = FromCaller

IOInit ==
    /\ args \in Calls
    /\ op = args.op
    /\ pc = "call" /\ f = NoStream /\ cl = FALSE /\ ret = RetNone
    /\ err = NoErr /\ lay = NoLayout /\ src = FromCaller

\* the call ends with outcome o
Apply(o) ==
    /\ f' = o.f /\ cl' = o.cl /\ ret' = o.ret /\ err' = o.err /\ lay' = o.lay
    /\ pc' = IF o.err = NoErr THEN "returned" ELSE "raised"
    /\ UNCHANGED <<op, args, src>>

WriteGnuplot == pc = "call" /\ op = "writeGnuplot" /\ Apply(writeGnuplot(args))

WriteGnuplotTriangles ==
    pc = "call" /\ op = "writeGnuplotTriangles" /\ Apply(writeGnuplotTriangles(args))

WriteSVG == pc = "call" /\ op = "writeSVG" /\ Apply(writeSVG(args))

WriteXML == pc = "call" /\ op = "writeXML" /\ Apply(writeXML(args))

ReadXML == pc = "call" /\ op = "readXML" /\ Apply(readXML(args))

\* the caller hands what writeXML wrote to readXML: the path of the file
\* it named, or else the text the stream holds
ReadBack ==
    /\ pc = "returned" /\ op = "writeXML"
    /\ op' = "readXML"
    /\ args' = [op |-> "readXML",
                ifile |-> [kind |-> IF f.kind = "file" THEN "path" ELSE "text",
                           doc |-> f.data]]
    /\ src' = [from |-> "writeXML", polylist |-> args.polylist]
    /\ pc' = "call" /\ f' = NoStream /\ cl' = FALSE /\ ret' = RetNone
    /\ err' = NoErr /\ lay' = NoLayout

(***************************************************************************)
(* Specifications                                                          *)
(***************************************************************************)
InitRing ==
    /\ \E seq \in SeqsOf(StyleValues, 1, RingMaxLen) : RingBufferInit(seq)
    /\ BinIdle
    /\ IOIdle

NextRing == RingBufferCall /\ UNCHANGED <<binvars, iovars>>

SpecRing == InitRing /\ [][NextRing]_vars

InitBin == BinInit /\ RingIdle /\ IOIdle

NextBin ==
    \/ Encode /\ UNCHANGED <<ringvars, iovars>>
    \/ Truncate /\ UNCHANGED <<ringvars, iovars>>
    \/ Decode /\ UNCHANGED <<ringvars, iovars>>

SpecBin == InitBin /\ [][NextBin]_vars

Init == IOInit /\ RingIdle /\ BinIdle

Next ==
    \/ WriteGnuplot /\ UNCHANGED <<ringvars, binvars>>
    \/ WriteGnuplotTriangles /\ UNCHANGED <<ringvars, binvars>>
    \/ WriteSVG /\ UNCHANGED <<ringvars, binvars>>
    \/ WriteXML /\ UNCHANGED <<ringvars, binvars>>
    \/ ReadXML /\ UNCHANGED <<ringvars, binvars>>
    \/ ReadBack /\ UNCHANGED <<ringvars, binvars>>

Spec == Init /\ [][Next]_vars

(***************************************************************************)
(* Claims                                                                  *)
(***************************************************************************)
\* C7: the k-th call of a ring buffer built from a non-empty sequence s of
\* length n returns s[(k-1) mod n] (0-based), and neither the buffer's
\* sequence nor the caller's sequence is ever changed.
C7_RingCycles ==
    /\ rb_s = rb_seq
    /\ rb_l = Len(rb_seq)
    /\ rb_n >= 1 => rb_o = rb_seq[((rb_n - 1) % Len(rb_seq)) + 1]

\* a buffer of three distinct values has wrapped: its 4th call returned s[0]
C7_Witness ==
    /\ rb_n = 4 /\ Len(rb_seq) = 3 /\ rb_seq[1] # rb_seq[3] /\ rb_o = rb_seq[1]

\* C1: decodeBinary(encodeBinary(p)) has p's contour count and, contour by
\* contour, p's point sequence (equal coordinates, same order) and hole flag.
C1_RoundTrip ==
    (bpc = "decoded" /\ ~cut) =>
        /\ "p" \in DOMAIN dec
        /\ Len(dec.p) = Len(poly)
        /\ \A k \in 1..Len(poly) :
              /\ dec.p[k].c = poly[k].c
              /\ dec.p[k].hole = poly[k].hole

\* a solid contour followed by a hole contour was encoded and decoded
C1_Witness ==
    /\ bpc = "decoded" /\ ~cut /\ Len(poly) = 2
    /\ ~poly[1].hole /\ poly[2].hole /\ Len(poly[2].c) = 2
    /\ "p" \in DOMAIN dec

\* C5: decodeBinary of any strict byte-prefix of encodeBinary(p) raises
\* struct.error (the truncated-input failure) and returns no polygon.
C5_TruncatedFails ==
    (bpc = "decoded" /\ cut) => dec = StructError

\* an encoding of a one-contour polygon lost exactly its last byte
C5_Witness ==
    /\ bpc = "decoded" /\ cut /\ Len(poly) = 1
    /\ Len(bin) = Len(encodeBinary(poly)) - 1
    /\ dec = StructError
Ended == pc \in {"returned", "raised"}
Writers == {"writeGnuplot", "writeGnuplotTriangles", "writeSVG", "writeXML"}

\* C2: whenever the resolver marked the stream as owned, the stream is
\* closed when the writer or reader exits, by return or by exception.
C2_OwnedStreamClosedOnExit ==
    (Ended /\ op \in Writers \cup {"readXML"} /\ cl) => f.closed

\* C3: a stream the resolver marked as not owned (a fresh buffer or the
\* caller's object) is never closed by a writer: it is open when the
\* writer exits, so its contents can still be retrieved.
C3_UnownedStreamLeftOpen ==
    (Ended /\ op \in Writers /\ f.kind \in {"StringIO", "caller"} /\ ~cl) => ~f.closed

\* a and b agree to the precision of a six-digit numeral (in millionths)
WithinTextPrecision(a, b) == 200000 * Abs(a - b) <= Abs(b)

SameContour(c, d) ==
    /\ Len(c.c) = Len(d.c)
    /\ c.hole = d.hole
    /\ \A j \in 1..Len(d.c) :
          /\ WithinTextPrecision(c.c[j][1], d.c[j][1])
          /\ WithinTextPrecision(c.c[j][2], d.c[j][2])

SamePolygon(p, q) ==
    Len(p) = Len(q) /\ \A k \in 1..Len(q) : SameContour(p[k], q[k])

\* C4: readXML of what writeXML wrote for a list of polygons returns as
\* many polygons, in order, each with the same contours: point counts,
\* coordinates up to the precision of the text, and hole flags.
C4_XmlRoundTrip ==
    (Ended /\ op = "readXML" /\ src.from = "writeXML") =>
        /\ pc = "returned"
        /\ Len(ret.plist) = Len(src.polylist)
        /\ \A k \in 1..Len(src.polylist) : SamePolygon(ret.plist[k], src.polylist[k])

\* the declared count of element n (attribute name) is not the number of
\* its element children
Miscounted(n, name) == int(getAttribute(n, name)) # Len(ElementChildren(n))

\* some <polygon> of document element d declares a wrong number of
\* contours, or some <contour> of it a wrong number of points
Mismatch(d) ==
    \E k \in 1..Len(getElementsByTagName(d, "polygon")) :
        LET pn == getElementsByTagName(d, "polygon")[k]
        IN \/ Miscounted(pn, "contours")
           \/ \E j \in 1..Len(ElementChildren(pn)) :
                 /\ ElementChildren(pn)[j].tagName = "contour"
                 /\ Miscounted(ElementChildren(pn)[j], "points")

\* C6: readXML of a document in which a <contour> declares a number of
\* points other than its <p> children, or a <polygon> a number of contours
\* other than its children, raises AssertionError and returns no list.
C6_MismatchFails ==
    (Ended /\ op = "readXML" /\ src = FromCaller /\ args.ifile.kind # "other"
       /\ Mismatch(parseString(args.ifile.doc).doc)) =>
        /\ pc = "raised"
        /\ err.type = "AssertionError"
        /\ ret = RetRaised

\* a document with one contour declaring 2 points and holding 1, in a
\* polygon that declares its one contour rightly, was refused on line 357
C6_Witness ==
    /\ Ended /\ op = "readXML" /\ src = FromCaller
    /\ args.ifile.doc = DocTokens(1, << ContourTokens(2, 0, 1) >>)
    /\ err = Raise("AssertionError", 357)

\* the x-extent and y-extent of the aggregate bounding box of polygons ps
XExtent(ps) ==
    LET xs == UNION {{q[1] : q \in PointsOf(ps[k])} : k \in 1..Len(ps)}
    IN SetMax(xs) - SetMin(xs)
YExtent(ps) ==
    LET ys == UNION {{q[2] : q \in PointsOf(ps[k])} : k \in 1..Len(ps)}
    IN SetMax(ys) - SetMin(ys)
XMin(ps) == SetMin(UNION {{q[1] : q \in PointsOf(ps[k])} : k \in 1..Len(ps)})

\* writeSVG got a stream and at least one polygon
SvgRan == Ended /\ op = "writeSVG" /\ f.kind # "none" /\ Len(args.polylist) > 0

\* C8: with both aggregate extents non-zero, polygon i is placed into the
\* x-range [width*(bb_i.xMin-minX)/xExtent, width*(bb_i.xMax-minX)/xExtent];
\* so when A.xMax < B.xMin, B is placed strictly to the right of A and the
\* gap between them is width*(B.xMin-A.xMax)/xExtent.
C8_ProportionalPlacement ==
    (SvgRan /\ pc = "returned") =>
        LET ps == args.polylist
            xe == XExtent(ps)
            w == lay.width
            bb(i) == boundingBox(ps[i])
        IN /\ args.width # 0 => w = RInt(args.width)
           /\ Len(lay.placed) = Len(ps)
           /\ \A i \in 1..Len(ps) :
                 /\ RMul(lay.placed[i][1], RInt(xe)) = RMul(w, RInt(bb(i)[1] - XMin(ps)))
                 /\ RMul(lay.placed[i][2], RInt(xe)) = RMul(w, RInt(bb(i)[2] - XMin(ps)))
           /\ \A i, j \in 1..Len(ps) :
                 bb(i)[2] < bb(j)[1] =>
                     /\ RLess(lay.placed[i][2], lay.placed[j][1])
                     /\ RMul(RSub(lay.placed[j][1], lay.placed[i][2]), RInt(xe))
                            = RMul(w, RInt(bb(j)[1] - bb(i)[2]))

\* the squares [0,1]x[0,1] and [2,3]x[2,3] at width 100: the second starts
\* at 200/3, one third of the width right of the first's end at 100/3
C8_Witness ==
    /\ SvgRan /\ pc = "returned"
    /\ args.polylist = << Square(0, 1), Square(2, 3) >>
    /\ args.width = 100 /\ args.height = 0
    /\ lay.placed[1][2] = <<100, 3>> /\ lay.placed[2][1] = <<200, 3>>

\* C9: when the aggregate bounding box has zero extent in both axes,
\* writeSVG fails with the error of line 238, before the division of
\* line 239 and with nothing written to the stream.
C9_DegenerateExtentFails ==
    (SvgRan /\ XExtent(args.polylist) = 0 /\ YExtent(args.polylist) = 0) =>
        /\ pc = "raised"
        /\ err = Raise("Error", 238)
        /\ f.data = <<>>

\* the single polygon whose points are all equal was refused on line 238
C9_Witness ==
    /\ SvgRan /\ args.polylist = << Dot >>
    /\ err = Raise("Error", 238) /\ f.data = <<>>

\* C10: when exactly one aggregate extent is zero, writeSVG neither raises
\* the degenerate-extent error nor divides by the zero extent, whichever
\* of width and height was given.
C10_OneZeroExtentHandled ==
    (SvgRan /\ (XExtent(args.polylist) = 0) # (YExtent(args.polylist) = 0)) =>
        /\ err.type # "ZeroDivisionError"
        /\ err # Raise("Error", 238)
====
